---- MODULE Spec2Model ----
(***************************************************************************)
(* Dataset validation and temporal canonicalization pipeline (Capitulo 5). *)
(*                                                                         *)
(*   P1.5  Resultados_Cap5.p1_5_ordenacao_temporal.py          (main)      *)
(*   P1.6  Resultados_Cap5.p1_6_persistencia_dataset_mestre.py (module)    *)
(*                                                                         *)
(* A run of a script is a sequence of steps; pc is the position of the     *)
(* run in the script, fs is the file system the run reads and writes.      *)
(* The cuDF primitives the scripts call are operators over tables.         *)
(***************************************************************************)
EXTENDS Integers, Sequences, FiniteSets, TLC

\* ------------------------------------------------------------------ bounds
MaxRows == 3        \* rows of an input dataset
MaxTs == 3          \* distinct instants 1..MaxTs
MaxRowsRuns == 1    \* rows of an input dataset in a sequence of runs
MaxRuns == 2        \* runs in a sequence of runs
MaxBytes == 3       \* bytes of a file handed to sha256_file
MaxChunk == 2       \* largest small chunk_size tried
MaxRowsFlags == 2   \* rows of a dataset handed to range_flags
MaxVal == 2         \* numeric cells are 1..MaxVal, or null
MaxRowsConf == 2    \* rows of an encoding handed to the confirmation run

VARIABLES
    prog,           \* which script this run executes
    pc,             \* position of the run in the script
    fs,             \* file system: path -> file
    written,        \* paths the current run has written so far
    df,             \* the loaded table (df)
    df_sorted,      \* the sorted table (df_sorted)
    nulls,          \* P1.5: nulls
    dt_min, dt_max, dup_count,        \* P1.5: evidence before the sort
    dt_min2, dt_max2, dup_count2,     \* P1.5: evidence after the sort
    is_mono,        \* result of the monotonicity check
    INPUT_PARQUET,  \* P1.6: the candidate chosen ("None": none)
    exc,            \* the exception raised, if any
    status,         \* exit status of the process (-1 while running)
    stderr,         \* diagnostic printed on exit
    s,              \* the series handed to the monotonicity check
    prev,           \* outcome of the previous run of a sequence of runs
    clock,          \* xiv: local wall clock, in ticks
    run_no,         \* xiv: ordinal of the current run in a sequence of runs
    run_id,         \* xiv: run_id
    log_lines,      \* xiv: log_lines
    env_info,       \* xiv: env_info["outputs"]
    csv_info,       \* P1.1b: csv_info
    pq_info,        \* P1.1b: pq_info
    df_csv,         \* P1.1b: df_csv
    df_pq,          \* P1.1b: df_pq
    same_shape,     \* P1.1b: same_shape
    same_cols,      \* P1.1b: same_cols
    schema_rows,    \* P1.1b: schema_rows
    sha_file,       \* sha256_file: the bytes of the file at path
    sha_chunk,      \* sha256_file: chunk_size of the first and of the later calls
    sha_hex,        \* sha256_file: the digests returned so far
    out             \* range_flags: the table returned

vars == <<prog, pc, fs, written, df, df_sorted, nulls, dt_min, dt_max, dup_count,
          dt_min2, dt_max2, dup_count2, is_mono, INPUT_PARQUET, exc, status,
          stderr, s, prev, clock, run_no, run_id, log_lines, env_info,
          csv_info, pq_info, df_csv, df_pq, same_shape, same_cols, schema_rows,
          sha_file, sha_chunk, sha_hex, out>>

xivVars == <<clock, run_no, run_id, log_lines, env_info>>

p11bVars == <<csv_info, pq_info, df_csv, df_pq, same_shape, same_cols, schema_rows>>
shaVars == <<sha_file, sha_chunk, sha_hex>>
auxVars == <<p11bVars, shaVars, out>>

\* ------------------------------------------------------------- basic values
Range(f) == {f[i] : i \in DOMAIN f}
Iota(n) == [i \in 1..n |-> i]
Count(b) == Cardinality({i \in DOMAIN b : b[i]})

\* the null timestamp (NaT) of a datetime column
NaT == 0
Instants == 1..MaxTs

\* Cells of the timestamp column as stored in the input of P1.5, before
\* conversion: a null, a text that does not parse, or one of two spellings
\* of each instant (e.g. "2017-01-01" and "2017-01-01 00:00:00").
RawNull == 0
RawBad == 2 * MaxTs + 1
RawCells == 0..RawBad

\* cudf.to_datetime on one parsable or null cell
ToDatetimeCell(r) == IF r = RawNull THEN NaT ELSE (r + 1) \div 2

DateCol == "date_time"
OtherCol == "payload"

\* A file: absent, or a table of named columns and rows.
NoFile == [exists |-> FALSE, columns |-> <<>>, rows |-> <<>>]
FileTable(columns, rows) == [exists |-> TRUE, columns |-> columns, rows |-> rows]

\* A table in memory: columns, index labels and rows.
NoTable == [columns |-> <<>>, index |-> <<>>, rows |-> <<>>]

\* cudf.read_parquet: the rows of the file under a fresh RangeIndex
ReadParquet(file) ==
    [columns |-> file.columns, index |-> Iota(Len(file.rows)), rows |-> file.rows]

\* df[col]
Column(t, col) == [i \in 1..Len(t.rows) |-> t.rows[i][col]]

\* Series.isna()
IsNa(col) == [i \in DOMAIN col |-> col[i] = NaT]

\* Series.min() / Series.max(): nulls skipped, NaT for an all-null column
SeriesMin(col) ==
    LET vals == {col[i] : i \in DOMAIN col} \ {NaT}
    IN  IF vals = {} THEN NaT ELSE CHOOSE v \in vals : \A w \in vals : v <= w

SeriesMax(col) ==
    LET vals == {col[i] : i \in DOMAIN col} \ {NaT}
    IN  IF vals = {} THEN NaT ELSE CHOOSE v \in vals : \A w \in vals : v >= w

\* Duplicated comparing each row with the row just before it only
DuplicatedAdjacent(col) == [i \in DOMAIN col |-> i > 1 /\ col[i - 1] = col[i]]

\* DataFrame.duplicated(subset=[col]), keep='first': a row is a duplicate
\* when its value already occurred in an earlier row.
Duplicated(col) == [i \in DOMAIN col |-> \E j \in 1..(i - 1) : col[j] = col[i]]

\* ------------------------------------------------------------------ sorting
Perms(n) == {p \in [1..n -> 1..n] : \A i, j \in 1..n : p[i] = p[j] => i = j}

\* ascending=True, na_position='last'
Precedes(a, b) == b = NaT \/ (a # NaT /\ a <= b)

\* The row orders an ascending sort of the column may produce.  No sort
\* algorithm is requested (kind is left at its default), so rows with equal
\* keys come out in any relative order.
SortedOrders(col) ==
    {p \in Perms(Len(col)) :
        \A i, j \in 1..Len(col) : i < j => Precedes(col[p[i]], col[p[j]])}

Take(t, p) ==
    [columns |-> t.columns,
     index |-> [i \in 1..Len(t.rows) |-> t.index[p[i]]],
     rows |-> [i \in 1..Len(t.rows) |-> t.rows[p[i]]]]

\* DataFrame.sort_values(by=col, ascending=True): the possible results
SortValues(t, col) == {Take(t, p) : p \in SortedOrders(Column(t, col))}

\* DataFrame.reset_index(drop=True)
ResetIndex(t) == [t EXCEPT !.index = Iota(Len(t.rows))]

\* ------------------------------------------------------- monotonicity checks
\* Series.shift(-1): each position takes the value of the next, last is null
ShiftMinus1(col) ==
    [i \in 1..Len(col) |-> IF i < Len(col) THEN col[i + 1] ELSE NaT]

\* a >= b element by element; a comparison with a null is null ("NA")
GreaterEq(a, b) ==
    [i \in 1..Len(a) |->
        IF a[i] = NaT \/ b[i] = NaT THEN "NA"
        ELSE IF a[i] >= b[i] THEN "True" ELSE "False"]

\* .fillna(True)
FillNaTrue(m) == [i \in 1..Len(m) |-> IF m[i] = "NA" THEN TRUE ELSE m[i] = "True"]

\* .all()
All(b) == \A i \in DOMAIN b : b[i]

\* IsMonoP15 with > in place of >=
IsMonoP15Strict(col) ==
    All([i \in 1..Len(col) |->
            col[i] = NaT \/ ShiftMinus1(col)[i] = NaT \/ ShiftMinus1(col)[i] > col[i]])

\* P1.5: bool((s.shift(-1) >= s).fillna(True).all())
IsMonoP15(col) == All(FillNaTrue(GreaterEq(ShiftMinus1(col), col)))

\* P1.6: Series.is_monotonic_increasing: false for a column holding a null,
\* else whether the column is sorted ascending
IsMonotonicIncreasing(col) ==
    /\ \A i \in 1..Len(col) : col[i] # NaT
    /\ \A i \in 1..(Len(col) - 1) : col[i] <= col[i + 1]

\* DataFrame.to_parquet(path, index=False): the index is not stored
ToParquet(t) == FileTable(t.columns, t.rows)

\* --------------------------------------------------------------- exceptions
NoExc == [type |-> "none", text |-> "", path |-> "", col |-> "", n |-> 0]
Raise(type, text, path, col, n) ==
    [type |-> type, text |-> text, path |-> path, col |-> col, n |-> n]

NoPrev == [type |-> "none", text |-> "", status |-> -1]

\* ------------------------------------------------------------------ datasets
\* Rows carry the timestamp cell and a payload that identifies the row.
RowsOf(cells) == [i \in 1..Len(cells) |-> [date_time |-> cells[i], payload |-> i]]
RowsNoDate(n) == [i \in 1..n |-> [payload |-> i]]

SeqsUpTo(S, n) == UNION {[1..k -> S] : k \in 0..n}

\* input files of P1.5 with at most n rows
InputFilesP15(n) ==
    {NoFile}
    \cup {FileTable(<<OtherCol>>, RowsNoDate(k)) : k \in 0..n}
    \cup {FileTable(<<DateCol, OtherCol>>, RowsOf(c)) : c \in SeqsUpTo(RawCells, n)}

\* what the output path holds before the run: nothing, or an older dataset
StaleFile == FileTable(<<DateCol, OtherCol>>, RowsOf(<<2, 1>>))

\* ------------------------------------------------------------ P1.5: main()
ArgsInput == "args.input"
ArgsOutput == "args.output"
ArgsDateCol == DateCol

\* cudf.to_datetime(df[col]): the possible outcomes.  A column with a text
\* that does not parse either raises or comes back with a null in its place.
ToDatetime(col) ==
    LET conv == [i \in 1..Len(col) |->
                    IF col[i] = RawBad THEN NaT ELSE ToDatetimeCell(col[i])]
    IN  IF \E i \in 1..Len(col) : col[i] = RawBad
        THEN {[raised |-> TRUE, col |-> col], [raised |-> FALSE, col |-> conv]}
        ELSE {[raised |-> FALSE, col |-> conv]}

\* df[col] = values
SetColumn(t, col, values) ==
    [t EXCEPT !.rows = [i \in 1..Len(t.rows) |-> [t.rows[i] EXCEPT ![col] = values[i]]]]

p15Locals == <<nulls, dt_min, dt_max, dup_count, dt_min2, dt_max2, dup_count2>>

\* lines 38-39
P15CheckInput ==
    /\ prog = "p15" /\ pc = "p15_start"
    /\ IF ~fs[ArgsInput].exists
       THEN /\ exc' = Raise("FileNotFoundError", "input not found", ArgsInput, "", 0)
            /\ pc' = "p15_raised"
       ELSE /\ pc' = "p15_read"
            /\ UNCHANGED exc
    /\ UNCHANGED <<auxVars, prog, fs, written, df, df_sorted, p15Locals, is_mono,
                   INPUT_PARQUET, status, stderr, s, prev, xivVars>>

\* line 47
P15ReadParquet ==
    /\ prog = "p15" /\ pc = "p15_read"
    /\ df' = ReadParquet(fs[ArgsInput])
    /\ pc' = "p15_col"
    /\ UNCHANGED <<auxVars, prog, fs, written, df_sorted, p15Locals, is_mono,
                   INPUT_PARQUET, exc, status, stderr, s, prev, xivVars>>

\* lines 52-53
P15CheckColumn ==
    /\ prog = "p15" /\ pc = "p15_col"
    /\ IF ArgsDateCol \notin Range(df.columns)
       THEN /\ exc' = Raise("KeyError", "column not found", "", ArgsDateCol, 0)
            /\ pc' = "p15_raised"
       ELSE /\ pc' = "p15_conv"
            /\ UNCHANGED exc
    /\ UNCHANGED <<auxVars, prog, fs, written, df, df_sorted, p15Locals, is_mono,
                   INPUT_PARQUET, status, stderr, s, prev, xivVars>>

\* lines 56-62
P15ToDatetime ==
    /\ prog = "p15" /\ pc = "p15_conv"
    /\ \E r \in ToDatetime(Column(df, ArgsDateCol)) :
          IF r.raised
          THEN /\ exc' = Raise("RuntimeError", "conversion to datetime failed",
                               "", ArgsDateCol, 0)
               /\ pc' = "p15_raised"
               /\ UNCHANGED df
          ELSE /\ df' = SetColumn(df, ArgsDateCol, r.col)
               /\ pc' = "p15_nulls"
               /\ UNCHANGED exc
    /\ UNCHANGED <<auxVars, prog, fs, written, df_sorted, p15Locals, is_mono,
                   INPUT_PARQUET, status, stderr, s, prev, xivVars>>

\* P15CheckNulls testing isna().any() and reporting it as the count
P15CheckNullsAny ==
    /\ prog = "p15" /\ pc = "p15_nulls"
    /\ nulls' = IF \E i \in 1..Len(df.rows) : df.rows[i][ArgsDateCol] = NaT THEN 1 ELSE 0
    /\ IF nulls' > 0
       THEN /\ exc' = Raise("ValueError", "null values after conversion",
                            "", ArgsDateCol, nulls')
            /\ pc' = "p15_raised"
       ELSE /\ pc' = "p15_pre"
            /\ UNCHANGED exc
    /\ UNCHANGED <<auxVars, prog, fs, written, df, df_sorted, dt_min, dt_max, dup_count,
                   dt_min2, dt_max2, dup_count2, is_mono, INPUT_PARQUET,
                   status, stderr, s, prev, xivVars>>

\* lines 65-69
P15CheckNulls ==
    /\ prog = "p15" /\ pc = "p15_nulls"
    /\ nulls' = Count(IsNa(Column(df, ArgsDateCol)))
    /\ IF nulls' > 0
       THEN /\ exc' = Raise("ValueError", "null values after conversion",
                            "", ArgsDateCol, nulls')
            /\ pc' = "p15_raised"
       ELSE /\ pc' = "p15_pre"
            /\ UNCHANGED exc
    /\ UNCHANGED <<auxVars, prog, fs, written, df, df_sorted, dt_min, dt_max, dup_count,
                   dt_min2, dt_max2, dup_count2, is_mono, INPUT_PARQUET,
                   status, stderr, s, prev, xivVars>>

\* lines 72-74
P15PreEvidence ==
    /\ prog = "p15" /\ pc = "p15_pre"
    /\ dt_min' = SeriesMin(Column(df, ArgsDateCol))
    /\ dt_max' = SeriesMax(Column(df, ArgsDateCol))
    /\ dup_count' = Count(Duplicated(Column(df, ArgsDateCol)))
    /\ pc' = "p15_sort"
    /\ UNCHANGED <<auxVars, prog, fs, written, df, df_sorted, nulls, dt_min2, dt_max2,
                   dup_count2, is_mono, INPUT_PARQUET, exc, status, stderr, s, prev, xivVars>>

\* line 80
P15SortValues ==
    /\ prog = "p15" /\ pc = "p15_sort"
    /\ df_sorted' \in SortValues(df, ArgsDateCol)
    /\ pc' = "p15_mono"
    /\ UNCHANGED <<auxVars, prog, fs, written, df, p15Locals, is_mono,
                   INPUT_PARQUET, exc, status, stderr, s, prev, xivVars>>

\* lines 83-86
P15CheckMono ==
    /\ prog = "p15" /\ pc = "p15_mono"
    /\ s' = Column(df_sorted, ArgsDateCol)
    /\ is_mono' = IsMonoP15(s')
    /\ IF ~is_mono'
       THEN /\ exc' = Raise("RuntimeError", "not monotonic after sort", "", "", 0)
            /\ pc' = "p15_raised"
       ELSE /\ pc' = "p15_post"
            /\ UNCHANGED exc
    /\ UNCHANGED <<auxVars, prog, fs, written, df, df_sorted, p15Locals,
                   INPUT_PARQUET, status, stderr, prev, xivVars>>

\* lines 89-91
P15PostEvidence ==
    /\ prog = "p15" /\ pc = "p15_post"
    /\ dt_min2' = SeriesMin(Column(df_sorted, ArgsDateCol))
    /\ dt_max2' = SeriesMax(Column(df_sorted, ArgsDateCol))
    /\ dup_count2' = Count(Duplicated(Column(df_sorted, ArgsDateCol)))
    /\ pc' = "p15_write"
    /\ UNCHANGED <<auxVars, prog, fs, written, df, df_sorted, nulls, dt_min, dt_max,
                   dup_count, is_mono, INPUT_PARQUET, exc, status, stderr, s, prev, xivVars>>

\* P15ToParquet writing the table as loaded instead of the sorted one
P15ToParquetUnsorted ==
    /\ prog = "p15" /\ pc = "p15_write"
    /\ fs' = [fs EXCEPT ![ArgsOutput] = ToParquet(df)]
    /\ written' = written \cup {ArgsOutput}
    /\ pc' = "p15_returned"
    /\ UNCHANGED <<auxVars, prog, df, df_sorted, p15Locals, is_mono,
                   INPUT_PARQUET, exc, status, stderr, s, prev, xivVars>>

\* lines 99-105
P15ToParquet ==
    /\ prog = "p15" /\ pc = "p15_write"
    /\ fs' = [fs EXCEPT ![ArgsOutput] = ToParquet(df_sorted)]
    /\ written' = written \cup {ArgsOutput}
    /\ pc' = "p15_returned"
    /\ UNCHANGED <<auxVars, prog, df, df_sorted, p15Locals, is_mono,
                   INPUT_PARQUET, exc, status, stderr, s, prev, xivVars>>

\* lines 108-110: main() returned, the interpreter exits with status 0
P15ExitOk ==
    /\ prog = "p15" /\ pc = "p15_returned"
    /\ status' = 0
    /\ pc' = "exit"
    /\ UNCHANGED <<auxVars, prog, fs, written, df, df_sorted, p15Locals, is_mono,
                   INPUT_PARQUET, exc, stderr, s, prev, xivVars>>

\* P15Handler without the sys.exit(1): the error is printed, the exit is normal
P15HandlerNoExit ==
    /\ prog = "p15" /\ pc = "p15_raised"
    /\ stderr' = exc
    /\ status' = 0
    /\ pc' = "exit"
    /\ UNCHANGED <<auxVars, prog, fs, written, df, df_sorted, p15Locals, is_mono,
                   INPUT_PARQUET, exc, s, prev, xivVars>>

\* lines 111-113: "[P1.5] ERRO: {type(e).__name__}: {e}" on stderr, sys.exit(1)
P15Handler ==
    /\ prog = "p15" /\ pc = "p15_raised"
    /\ stderr' = exc
    /\ status' = 1
    /\ pc' = "exit"
    /\ UNCHANGED <<auxVars, prog, fs, written, df, df_sorted, p15Locals, is_mono,
                   INPUT_PARQUET, exc, s, prev, xivVars>>

NextP15 ==
    \/ P15CheckInput \/ P15ReadParquet \/ P15CheckColumn \/ P15ToDatetime
    \/ P15CheckNulls \/ P15PreEvidence \/ P15SortValues \/ P15CheckMono
    \/ P15PostEvidence \/ P15ToParquet \/ P15ExitOk \/ P15Handler

\* the state of a process before it runs
FreshLocals ==
    /\ written = {}
    /\ nulls = 0
    /\ dt_min = NaT /\ dt_max = NaT /\ dup_count = 0
    /\ dt_min2 = NaT /\ dt_max2 = NaT /\ dup_count2 = 0
    /\ is_mono = FALSE
    /\ INPUT_PARQUET = "None"
    /\ exc = NoExc
    /\ status = -1
    /\ stderr = NoExc
    /\ s = <<>>

\* the variables of the profiling run, where another script runs
NoOutputs == [parquet_sha256 |-> <<>>, csv_sha256 |-> <<>>,
              describe_csv |-> <<>>, quantis_csv |-> <<>>, ranges_csv |-> <<>>,
              figuras |-> <<>>]
XivIdle ==
    /\ clock = 0 /\ run_no = 1 /\ run_id = -1
    /\ log_lines = <<>> /\ env_info = NoOutputs

\* the variables of the confirmation run, of sha256_file and of range_flags,
\* where another script runs
NoInfo == [path |-> "", exists |-> FALSE, size_bytes |-> 0, sha256 |-> <<>>]
P11bIdle ==
    /\ csv_info = NoInfo /\ pq_info = NoInfo
    /\ df_csv = NoTable /\ df_pq = NoTable
    /\ same_shape = FALSE /\ same_cols = FALSE
    /\ schema_rows = <<>>
ShaIdle == sha_file = <<>> /\ sha_chunk = <<>> /\ sha_hex = <<>>
AuxIdle == P11bIdle /\ ShaIdle /\ out = <<>>

Fresh == FreshLocals /\ df = NoTable /\ df_sorted = NoTable

InitP15(n) ==
    /\ prog = "p15" /\ pc = "p15_start"
    /\ \E file \in InputFilesP15(n), old \in {NoFile, StaleFile} :
          fs = [p \in {ArgsInput, ArgsOutput} |-> IF p = ArgsInput THEN file ELSE old]
    /\ Fresh

\* ---------------------------------------------------- P1.6: module body
CANDIDATOS_INPUT ==
    << "dataset_meteorologico_p1_5_ordenado.parquet",
       "dataset_meteorologico_p1_5.parquet",
       "dataset_meteorologico_ordenado.parquet",
       "dataset_p1_5_ordenado.parquet" >>

OUTPUT_PARQUET == "dataset_mestre_meteorologico.parquet"

\* lines 24-28: for p in CANDIDATOS_INPUT: if p.exists(): INPUT_PARQUET = p; break
RECURSIVE FirstExisting(_, _)
FirstExisting(cands, fsys) ==
    IF cands = <<>> THEN "None"
    ELSE IF fsys[Head(cands)].exists THEN Head(cands)
    ELSE FirstExisting(Tail(cands), fsys)

\* the last existing candidate instead of the first
RECURSIVE LastExisting(_, _)
LastExisting(cands, fsys) ==
    IF cands = <<>> THEN "None"
    ELSE IF fsys[cands[Len(cands)]].exists THEN cands[Len(cands)]
    ELSE LastExisting(SubSeq(cands, 1, Len(cands) - 1), fsys)

P16SelectInputLast ==
    /\ prog = "p16" /\ pc = "p16_select"
    /\ INPUT_PARQUET' = LastExisting(CANDIDATOS_INPUT, fs)
    /\ pc' = "p16_found"
    /\ UNCHANGED <<auxVars, prog, fs, written, df, df_sorted, p15Locals, is_mono,
                   exc, status, stderr, s, prev, xivVars>>

P16SelectInput ==
    /\ prog = "p16" /\ pc = "p16_select"
    /\ INPUT_PARQUET' = FirstExisting(CANDIDATOS_INPUT, fs)
    /\ pc' = "p16_found"
    /\ UNCHANGED <<auxVars, prog, fs, written, df, df_sorted, p15Locals, is_mono,
                   exc, status, stderr, s, prev, xivVars>>

\* lines 30-36
P16CheckInput ==
    /\ prog = "p16" /\ pc = "p16_found"
    /\ IF INPUT_PARQUET = "None"
       THEN /\ exc' = Raise("FileNotFoundError", "input of P1.5 not found",
                            "CANDIDATOS_INPUT", "", 0)
            /\ pc' = "p16_raised"
       ELSE /\ pc' = "p16_read"
            /\ UNCHANGED exc
    /\ UNCHANGED <<auxVars, prog, fs, written, df, df_sorted, p15Locals, is_mono,
                   INPUT_PARQUET, status, stderr, s, prev, xivVars>>

\* line 39
P16ReadParquet ==
    /\ prog = "p16" /\ pc = "p16_read"
    /\ df' = ReadParquet(fs[INPUT_PARQUET])
    /\ pc' = "p16_col"
    /\ UNCHANGED <<auxVars, prog, fs, written, df_sorted, p15Locals, is_mono,
                   INPUT_PARQUET, exc, status, stderr, s, prev, xivVars>>

\* lines 45-46
P16CheckColumn ==
    /\ prog = "p16" /\ pc = "p16_col"
    /\ IF DateCol \notin Range(df.columns)
       THEN /\ exc' = Raise("KeyError", "field absent", "", DateCol, 0)
            /\ pc' = "p16_raised"
       ELSE /\ pc' = "p16_sort"
            /\ UNCHANGED exc
    /\ UNCHANGED <<auxVars, prog, fs, written, df, df_sorted, p15Locals, is_mono,
                   INPUT_PARQUET, status, stderr, s, prev, xivVars>>

\* line 48: df = df.sort_values("date_time").reset_index(drop=True)
P16SortValues ==
    /\ prog = "p16" /\ pc = "p16_sort"
    /\ \E t \in SortValues(df, DateCol) : df' = ResetIndex(t)
    /\ pc' = "p16_mono"
    /\ UNCHANGED <<auxVars, prog, fs, written, df_sorted, p15Locals, is_mono,
                   INPUT_PARQUET, exc, status, stderr, s, prev, xivVars>>

\* P16CheckMono reporting the failed check without raising
P16CheckMonoWarnOnly ==
    /\ prog = "p16" /\ pc = "p16_mono"
    /\ s' = Column(df, DateCol)
    /\ is_mono' = IsMonotonicIncreasing(s')
    /\ pc' = "p16_write"
    /\ UNCHANGED <<auxVars, prog, fs, written, df, df_sorted, p15Locals,
                   INPUT_PARQUET, exc, status, stderr, prev, xivVars>>

\* lines 50-51
P16CheckMono ==
    /\ prog = "p16" /\ pc = "p16_mono"
    /\ s' = Column(df, DateCol)
    /\ is_mono' = IsMonotonicIncreasing(s')
    /\ IF ~is_mono'
       THEN /\ exc' = Raise("ValueError", "not monotonically increasing after sort",
                            "", "", 0)
            /\ pc' = "p16_raised"
       ELSE /\ pc' = "p16_write"
            /\ UNCHANGED exc
    /\ UNCHANGED <<auxVars, prog, fs, written, df, df_sorted, p15Locals,
                   INPUT_PARQUET, status, stderr, prev, xivVars>>

\* line 56
P16ToParquet ==
    /\ prog = "p16" /\ pc = "p16_write"
    /\ fs' = [fs EXCEPT ![OUTPUT_PARQUET] = ToParquet(df)]
    /\ written' = written \cup {OUTPUT_PARQUET}
    /\ pc' = "p16_returned"
    /\ UNCHANGED <<auxVars, prog, df, df_sorted, p15Locals, is_mono,
                   INPUT_PARQUET, exc, status, stderr, s, prev, xivVars>>

\* the module body ran to its end: the interpreter exits with status 0
P16ExitOk ==
    /\ prog = "p16" /\ pc = "p16_returned"
    /\ status' = 0
    /\ pc' = "exit"
    /\ UNCHANGED <<auxVars, prog, fs, written, df, df_sorted, p15Locals, is_mono,
                   INPUT_PARQUET, exc, stderr, s, prev, xivVars>>

\* an exception nobody catches: the interpreter prints the traceback with
\* the exception's type and message and exits with status 1
P16Uncaught ==
    /\ prog = "p16" /\ pc = "p16_raised"
    /\ stderr' = exc
    /\ status' = 1
    /\ pc' = "exit"
    /\ UNCHANGED <<auxVars, prog, fs, written, df, df_sorted, p15Locals, is_mono,
                   INPUT_PARQUET, exc, s, prev, xivVars>>

NextP16 ==
    \/ P16SelectInput \/ P16CheckInput \/ P16ReadParquet \/ P16CheckColumn
    \/ P16SortValues \/ P16CheckMono \/ P16ToParquet \/ P16ExitOk \/ P16Uncaught

\* input files of P1.6: timestamps already of datetime type, nulls allowed
InputFilesP16(n) ==
    {FileTable(<<OtherCol>>, RowsNoDate(k)) : k \in 0..n}
    \cup {FileTable(<<DateCol, OtherCol>>, RowsOf(c)) :
              c \in SeqsUpTo({NaT} \cup Instants, n)}

\* File systems of P1.6: no candidate exists, or one candidate holds a
\* dataset and each other candidate is absent or holds an older dataset.
InitP16(n) ==
    /\ prog = "p16" /\ pc = "p16_select"
    /\ \E old \in {NoFile, StaleFile} :
          \/ fs = [p \in Range(CANDIDATOS_INPUT) \cup {OUTPUT_PARQUET} |->
                      IF p = OUTPUT_PARQUET THEN old ELSE NoFile]
          \/ \E k \in DOMAIN CANDIDATOS_INPUT, file \in InputFilesP16(n),
                others \in SUBSET (DOMAIN CANDIDATOS_INPUT) :
                fs = [p \in Range(CANDIDATOS_INPUT) \cup {OUTPUT_PARQUET} |->
                         IF p = OUTPUT_PARQUET THEN old
                         ELSE IF p = CANDIDATOS_INPUT[k] THEN file
                         ELSE IF \E j \in others : p = CANDIDATOS_INPUT[j]
                              THEN StaleFile ELSE NoFile]
    /\ Fresh

\* ------------------------------------------- the canonicalization stages
Init ==
    /\ prev = NoPrev
    /\ AuxIdle
    /\ XivIdle
    /\ \/ InitP15(MaxRows)
       \/ InitP16(MaxRows)

Next == NextP15 \/ NextP16

Spec == Init /\ [][Next]_vars

\* The monotonicity checks of P1.5 and P1.6 alone, on a table in any row
\* order (whatever order the sort left it in).  P1.5 rejects nulls before
\* the sort; P1.6 does not.
InitMono ==
    /\ prev = NoPrev
    /\ AuxIdle
    /\ XivIdle
    /\ FreshLocals
    /\ \/ /\ prog = "p15" /\ pc = "p15_mono"
          /\ fs = [p \in {ArgsInput, ArgsOutput} |-> NoFile]
          /\ \E c \in SeqsUpTo(Instants, MaxRows) :
                df_sorted = ReadParquet(FileTable(<<DateCol, OtherCol>>, RowsOf(c)))
          /\ df = df_sorted
       \/ /\ prog = "p16" /\ pc = "p16_mono"
          /\ fs = [p \in Range(CANDIDATOS_INPUT) \cup {OUTPUT_PARQUET} |-> NoFile]
          /\ \E c \in SeqsUpTo({NaT} \cup Instants, MaxRows) :
                df = ReadParquet(FileTable(<<DateCol, OtherCol>>, RowsOf(c)))
          /\ df_sorted = NoTable

NextMono == P15CheckMono \/ P16CheckMono

SpecMono == InitMono /\ [][NextMono]_vars

\* ------------------------------------------------ P1.5 run after run
\* The script is started again once the previous process has exited: the
\* input path holds whatever dataset is there by then, the output path what
\* the previous run left.
P15NextRun ==
    /\ prog = "p15" /\ pc = "exit" /\ prev = NoPrev
    /\ prev' = [type |-> exc.type, text |-> exc.text, status |-> status]
    /\ pc' = "p15_start"
    /\ \E file \in InputFilesP15(MaxRowsRuns) : fs' = [fs EXCEPT ![ArgsInput] = file]
    /\ written' = {}
    /\ df' = NoTable /\ df_sorted' = NoTable
    /\ nulls' = 0
    /\ dt_min' = NaT /\ dt_max' = NaT /\ dup_count' = 0
    /\ dt_min2' = NaT /\ dt_max2' = NaT /\ dup_count2' = 0
    /\ is_mono' = FALSE
    /\ exc' = NoExc
    /\ status' = -1
    /\ stderr' = NoExc
    /\ s' = <<>>
    /\ UNCHANGED <<auxVars, prog, INPUT_PARQUET, xivVars>>

InitRuns ==
    /\ prev = NoPrev
    /\ AuxIdle
    /\ XivIdle
    /\ InitP15(MaxRowsRuns)

NextRuns == NextP15 \/ P15NextRun

SpecRuns == InitRuns /\ [][NextRuns]_vars

\* ---------------------------------------------------------- sha256_file
\* the values a byte takes in the files modelled
ByteValues == {0, 1}

\* chunk_size: -1 (read to the end), 0, small chunks, and the default of
\* 1024 * 1024, which is larger than every file modelled
DefaultChunkSize == MaxBytes + 2
ChunkSizes == ((-1)..MaxChunk) \cup {DefaultChunkSize}

\* f.read(n) at offset pos of a binary file: the next n bytes, fewer only at
\* the end of the file; everything that is left when n is negative
FileRead(bytes, pos, n) ==
    IF n < 0 \/ pos + n > Len(bytes)
    THEN SubSeq(bytes, pos + 1, Len(bytes))
    ELSE SubSeq(bytes, pos + 1, pos + n)

\* hashlib: h.update(b) appends b to the message, hexdigest() is a code of
\* the whole message. SHA-256 is taken to be free of collisions on the
\* files modelled: the code is the message read as numerals, block by block.
RECURSIVE Numeral(_)
Numeral(msg) ==
    IF msg = <<>> THEN 0
    ELSE Numeral(SubSeq(msg, 1, Len(msg) - 1)) * (Cardinality(ByteValues) + 1)
         + msg[Len(msg)] + 1

\* bytes per numeral, so that a numeral stays within the integers
BlockBytes == 16

RECURSIVE HexDigest(_)
HexDigest(msg) ==
    IF Len(msg) <= BlockBytes THEN <<Numeral(msg)>>
    ELSE <<Numeral(SubSeq(msg, 1, BlockBytes))>>
         \o HexDigest(SubSeq(msg, BlockBytes + 1, Len(msg)))

\* the loop with a slip: a chunk shorter than chunk_size ends it unhashed
RECURSIVE Sha256LoopDropTail(_, _, _, _)
Sha256LoopDropTail(bytes, pos, h, n) ==
    LET b == FileRead(bytes, pos, n)
    IN  IF b = <<>> \/ (n > 0 /\ Len(b) < n) THEN h
        ELSE Sha256LoopDropTail(bytes, pos + Len(b), h \o b, n)

\* while True: b = f.read(chunk_size); if not b: break; h.update(b)
RECURSIVE Sha256Loop(_, _, _, _)
Sha256Loop(bytes, pos, h, n) ==
    LET b == FileRead(bytes, pos, n)
    IN  IF b = <<>> THEN h
        ELSE Sha256Loop(bytes, pos + Len(b), h \o b, n)

\* sha256_file(path, chunk_size)
Sha256File(bytes, chunk_size) == HexDigest(Sha256Loop(bytes, 0, <<>>, chunk_size))

\* a second numeric column
ExtraCol == "valor"

\* every column name of the datasets modelled, in a fixed order
AllCols == <<DateCol, OtherCol, ExtraCol>>

RECURSIVE Concat(_)
Concat(seqs) == IF seqs = <<>> THEN <<>> ELSE Head(seqs) \o Concat(Tail(seqs))

\* the bytes of a number: as many ones, then a zero
CellBytes(v) == [i \in 1..v |-> 1] \o <<0>>

\* the bytes of a stored table: its column names, then its cells row by row
FileBytes(file) ==
    Concat([j \in 1..Len(file.columns) |->
               CellBytes(CHOOSE k \in DOMAIN AllCols : AllCols[k] = file.columns[j])])
    \o <<0>>
    \o Concat([i \in 1..Len(file.rows) |->
                  Concat([j \in 1..Len(file.columns) |->
                             CellBytes(file.rows[i][file.columns[j]])])])

\* ------------------------------------------------ item xiv: main()
\* number of clock ticks in one second of the local wall clock
TicksPerSecond == 2

\* datetime.now().strftime("%Y%m%d_%H%M%S"): the time cut to whole seconds
Strftime(now) == now \div TicksPerSecond

\* paths: <<directory, file name, run id>>, run id -1 for a name without one
NoId == -1
ParquetPath == <<"env", "CAP5_METEO_PARQUET", NoId>>
CsvPath == <<"env", "CAP5_METEO_CSV", NoId>>
LogFile(id) == <<"logs", "run", id>>
MetaFile(id) == <<"metadata", "run", id>>
TabFile(name, id) == <<"tabelas", name, id>>
FigFile(name) == <<"figuras", name, NoId>>
InputPaths == {ParquetPath, CsvPath}

\* an evidence file: what was written, and the run that wrote it
Evidence(run, data) == [exists |-> TRUE, run |-> run, data |-> data]

\* Path.write_text / DataFrame.to_csv / savefig: creates or replaces the file
WriteFile(fsys, path, file) ==
    [q \in DOMAIN fsys \cup {path} |-> IF q = path THEN file ELSE fsys[q]]

\* str(df[c].dtype) of the columns of the datasets modelled
DtypeOf(c) == IF c = DateCol THEN "datetime64[ns]" ELSE "int64"

\* a looser test: any dtype whose name holds a bit width counts as numeric
IsNumericDtypeByWidth(dtype) ==
    dtype \in {"int64", "float64", "uint64", "decimal", "datetime64[ns]"}

\* is_numeric_dtype: the name of the dtype holds int, float, uint or decimal
IsNumericDtype(dtype) == dtype \in {"int64", "float64", "uint64", "decimal"}

\* [c for c in df.columns if is_numeric_dtype(df[c].dtype)]
NumCols(t) == SelectSeq(t.columns, LAMBDA c : IsNumericDtype(DtypeOf(c)))

\* schema_table(df)
SchemaTable(t) ==
    [i \in 1..Len(t.columns) |->
        [coluna |-> t.columns[i], dtype |-> DtypeOf(t.columns[i]),
         nulos |-> Count(IsNa(Column(t, t.columns[i])))]]

\* duplicates_info(df): rows equal to an earlier row
DuplicatesInfo(t) ==
    Cardinality({i \in 1..Len(t.rows) : \E j \in 1..(i - 1) : t.rows[j] = t.rows[i]})

\* numeric_describe / numeric_quantiles / range_flags: empty without numeric
\* columns, else one entry per numeric column
NumericDescribe(t) == NumCols(t)
NumericQuantiles(t) == NumCols(t)
\* a > b between nullable numbers instead of a < b
NullGreater(a, b) ==
    IF a = NaT \/ b = NaT THEN "NA" ELSE IF a > b THEN "True" ELSE "False"

\* a < b between nullable numbers (the null cell of every column is NaT):
\* null if either side is null
NullLess(a, b) ==
    IF a = NaT \/ b = NaT THEN "NA" ELSE IF a < b THEN "True" ELSE "False"

\* the numbers of a sequence in ascending order
SortedInts(seq) ==
    CHOOSE r \in [DOMAIN seq -> Range(seq)] :
        /\ \A v \in Range(seq) :
               Cardinality({i \in DOMAIN seq : r[i] = v})
                   = Cardinality({i \in DOMAIN seq : seq[i] = v})
        /\ \A i \in 1..(Len(seq) - 1) : r[i] <= r[i + 1]

\* 20 times Series.quantile(0.95) with linear interpolation over the
\* non-null numbers vals (not empty): position 0.95 * (n - 1) of the sorted
\* numbers, interpolated between its two neighbours
Quantile95Times20(vals) ==
    LET r == SortedInts(vals)
        n == Len(r)
        lo == (19 * (n - 1)) \div 20 + 1
        hi == IF lo < n THEN lo + 1 ELSE n
    IN  20 * r[lo] + ((19 * (n - 1)) % 20) * (r[hi] - r[lo])

\* range_flags(df): one row per numeric column with its min, max, range,
\* flag_invertido = max < min and flag_range_muito_alto = range > the 0.95
\* quantile of the ranges (False for all when no range is known)
RangeFlags(t) ==
    LET cols == NumCols(t)
        mins == [i \in 1..Len(cols) |-> SeriesMin(Column(t, cols[i]))]
        maxs == [i \in 1..Len(cols) |-> SeriesMax(Column(t, cols[i]))]
        known == SelectSeq([i \in 1..Len(cols) |-> i], LAMBDA i : mins[i] # NaT)
        ranges == [k \in 1..Len(known) |-> maxs[known[k]] - mins[known[k]]]
    IN  [i \in 1..Len(cols) |->
            [coluna |-> cols[i],
             min |-> mins[i],
             max |-> maxs[i],
             range |-> IF mins[i] = NaT THEN "NA" ELSE maxs[i] - mins[i],
             flag_invertido |-> NullLess(maxs[i], mins[i]),
             flag_range_muito_alto |->
                 IF known = <<>> THEN "False"
                 ELSE IF mins[i] = NaT THEN "NA"
                 ELSE IF 20 * (maxs[i] - mins[i]) > Quantile95Times20(ranges)
                      THEN "True" ELSE "False"]]

\* lines 244-247: sha256_file(path) if path.exists() else None
InputHash(file) ==
    IF file.exists THEN Sha256File(FileBytes(file), DefaultChunkSize) ELSE <<>>

\* lines 198-247: configuration, directories, run id, first log lines, the
\* hashes of the inputs
XivBegin ==
    /\ prog = "xiv" /\ pc = "xiv_start"
    /\ \E now \in clock..(clock + TicksPerSecond) :
          /\ clock' = now
          /\ run_id' = Strftime(now)
    /\ log_lines' = <<"Inicio item xiv", "Repo", "Parquet", "CSV", "Outdir">>
    /\ env_info' = [env_info EXCEPT
          !.parquet_sha256 = InputHash(fs[ParquetPath]),
          !.csv_sha256 = InputHash(fs[CsvPath])]
    /\ pc' = "xiv_check"
    /\ UNCHANGED <<auxVars, prog, fs, written, df, df_sorted, p15Locals, is_mono,
                   INPUT_PARQUET, exc, status, stderr, s, prev, run_no>>

\* lines 249-250
XivCheckParquet ==
    /\ prog = "xiv" /\ pc = "xiv_check"
    /\ IF ~fs[ParquetPath].exists
       THEN /\ exc' = Raise("FileNotFoundError", "parquet not found",
                            "CAP5_METEO_PARQUET", "", 0)
            /\ pc' = "xiv_raised"
       ELSE /\ pc' = "xiv_read"
            /\ UNCHANGED exc
    /\ UNCHANGED <<auxVars, prog, fs, written, df, df_sorted, p15Locals, is_mono,
                   INPUT_PARQUET, status, stderr, s, prev, xivVars>>

\* lines 252-258
XivReadParquet ==
    /\ prog = "xiv" /\ pc = "xiv_read"
    /\ df' = ReadParquet(fs[ParquetPath])
    /\ log_lines' = log_lines \o <<"Carregado Parquet em GPU", "Perfil basico">>
    /\ pc' = "xiv_schema"
    /\ UNCHANGED <<auxVars, prog, fs, written, df_sorted, p15Locals, is_mono, INPUT_PARQUET,
                   exc, status, stderr, s, prev, clock, run_no, run_id, env_info>>

\* lines 261-264
XivSchema ==
    /\ prog = "xiv" /\ pc = "xiv_schema"
    /\ fs' = WriteFile(fs, TabFile("schema_nulos", run_id),
                       Evidence(run_no, SchemaTable(df)))
    /\ written' = written \cup {TabFile("schema_nulos", run_id)}
    /\ log_lines' = Append(log_lines, "Gerado schema_nulos")
    /\ pc' = "xiv_dup"
    /\ UNCHANGED <<auxVars, prog, df, df_sorted, p15Locals, is_mono, INPUT_PARQUET,
                   exc, status, stderr, s, prev, clock, run_no, run_id, env_info>>

\* lines 267-270
XivDuplicates ==
    /\ prog = "xiv" /\ pc = "xiv_dup"
    /\ fs' = WriteFile(fs, TabFile("duplicatas", run_id),
                       Evidence(run_no, DuplicatesInfo(df)))
    /\ written' = written \cup {TabFile("duplicatas", run_id)}
    /\ log_lines' = Append(log_lines, "Gerado duplicatas")
    /\ pc' = "xiv_describe"
    /\ UNCHANGED <<auxVars, prog, df, df_sorted, p15Locals, is_mono, INPUT_PARQUET,
                   exc, status, stderr, s, prev, clock, run_no, run_id, env_info>>

\* a profiling table is written only if it is not empty; its path goes to
\* env_info["outputs"], None (<<>>) when it was not written
XivTable(from, to, name, key, table, sem) ==
    /\ prog = "xiv" /\ pc = from
    /\ IF Len(table) > 0
       THEN /\ fs' = WriteFile(fs, TabFile(name, run_id), Evidence(run_no, table))
            /\ written' = written \cup {TabFile(name, run_id)}
            /\ log_lines' = Append(log_lines, "Gerado " \o name)
            /\ env_info' = [env_info EXCEPT ![key] = <<TabFile(name, run_id)>>]
       ELSE /\ log_lines' = Append(log_lines, sem)
            /\ UNCHANGED <<fs, written, env_info>>
    /\ pc' = to
    /\ UNCHANGED <<auxVars, prog, df, df_sorted, p15Locals, is_mono, INPUT_PARQUET,
                   exc, status, stderr, s, prev, clock, run_no, run_id>>

\* lines 273-280
XivDescribe ==
    XivTable("xiv_describe", "xiv_quantis", "describe_numerico", "describe_csv",
             NumericDescribe(df), "Sem colunas numericas para describe")

\* lines 283-290
XivQuantiles ==
    XivTable("xiv_quantis", "xiv_ranges", "quantis_numericos", "quantis_csv",
             NumericQuantiles(df), "Sem colunas numericas para quantis")

\* lines 293-300
XivRangeFlags ==
    XivTable("xiv_ranges", "xiv_figs", "ranges_flags", "ranges_csv",
             RangeFlags(df), "Sem colunas numericas para ranges/flags")

\* save_figures: hist_{c}.png for the first four numeric columns and
\* boxplot_primeiras_colunas.png, nothing without numeric columns
FigureNames(t) ==
    IF NumCols(t) = <<>> THEN <<>>
    ELSE LET first == SubSeq(NumCols(t), 1, IF Len(NumCols(t)) < 4 THEN Len(NumCols(t)) ELSE 4)
         IN  [i \in 1..Len(first) |-> "hist_" \o first[i]]
             \o <<"boxplot_primeiras_colunas">>

\* lines 303-304
XivFigures ==
    /\ prog = "xiv" /\ pc = "xiv_figs"
    /\ LET figs == FigureNames(df)
           paths == {FigFile(figs[i]) : i \in 1..Len(figs)}
       IN  /\ fs' = [q \in DOMAIN fs \cup paths |->
                        IF q \in paths THEN Evidence(run_no, "png") ELSE fs[q]]
           /\ written' = written \cup paths
           /\ log_lines' =
                 (IF figs = <<>> THEN Append(log_lines, "Sem colunas numericas detectadas")
                  ELSE log_lines) \o <<"Figuras geradas">>
           /\ env_info' = [env_info EXCEPT !.figuras = figs]
    /\ pc' = "xiv_meta"
    /\ UNCHANGED <<auxVars, prog, df, df_sorted, p15Locals, is_mono, INPUT_PARQUET,
                   exc, status, stderr, s, prev, clock, run_no, run_id>>

\* lines 306-319
XivWriteMeta ==
    /\ prog = "xiv" /\ pc = "xiv_meta"
    /\ fs' = WriteFile(fs, MetaFile(run_id), Evidence(run_no, env_info))
    /\ written' = written \cup {MetaFile(run_id)}
    /\ log_lines' = Append(log_lines, "Metadata")
    /\ pc' = "xiv_log"
    /\ UNCHANGED <<auxVars, prog, df, df_sorted, p15Locals, is_mono, INPUT_PARQUET,
                   exc, status, stderr, s, prev, clock, run_no, run_id, env_info>>

\* line 321
XivWriteLog ==
    /\ prog = "xiv" /\ pc = "xiv_log"
    /\ fs' = WriteFile(fs, LogFile(run_id), Evidence(run_no, log_lines))
    /\ written' = written \cup {LogFile(run_id)}
    /\ pc' = "xiv_returned"
    /\ UNCHANGED <<auxVars, prog, df, df_sorted, p15Locals, is_mono, INPUT_PARQUET,
                   exc, status, stderr, s, prev, xivVars>>

\* lines 326, 330: raise SystemExit(main()) with main() returning 0
XivExitOk ==
    /\ prog = "xiv" /\ pc = "xiv_returned"
    /\ status' = 0
    /\ pc' = "exit"
    /\ UNCHANGED <<auxVars, prog, fs, written, df, df_sorted, p15Locals, is_mono,
                   INPUT_PARQUET, exc, stderr, s, prev, xivVars>>

\* line 330: main() raised and nothing catches it: traceback, status 1
XivUncaught ==
    /\ prog = "xiv" /\ pc = "xiv_raised"
    /\ stderr' = exc
    /\ status' = 1
    /\ pc' = "exit"
    /\ UNCHANGED <<auxVars, prog, fs, written, df, df_sorted, p15Locals, is_mono,
                   INPUT_PARQUET, exc, s, prev, xivVars>>

\* rows of a dataset that has the timestamp column only
RowsDateOnly(cells) == [i \in 1..Len(cells) |-> [date_time |-> cells[i]]]

\* input datasets of the profiling run with at most n rows: with and without
\* the timestamp column, with and without a numeric column
InputFilesXiv(n) ==
    InputFilesP16(n)
    \cup {FileTable(<<DateCol>>, RowsDateOnly(c)) : c \in SeqsUpTo({NaT} \cup Instants, n)}

\* The script is started again against the same output directory once the
\* previous process has exited; the inputs are whatever is there by then.
XivNextRun ==
    /\ prog = "xiv" /\ pc = "exit" /\ run_no < MaxRuns
    /\ run_no' = run_no + 1
    /\ pc' = "xiv_start"
    /\ \E pq \in {NoFile} \cup InputFilesXiv(MaxRowsRuns), csv \in {NoFile, StaleFile} :
          fs' = [q \in DOMAIN fs |->
                    IF q = ParquetPath THEN pq ELSE IF q = CsvPath THEN csv ELSE fs[q]]
    /\ written' = {}
    /\ df' = NoTable
    /\ log_lines' = <<>> /\ env_info' = NoOutputs /\ run_id' = -1
    /\ exc' = NoExc /\ status' = -1 /\ stderr' = NoExc
    /\ UNCHANGED <<auxVars, prog, df_sorted, p15Locals, is_mono, INPUT_PARQUET, s, prev, clock>>

NextXiv ==
    \/ XivBegin \/ XivCheckParquet \/ XivReadParquet \/ XivSchema \/ XivDuplicates
    \/ XivDescribe \/ XivQuantiles \/ XivRangeFlags \/ XivFigures \/ XivWriteMeta
    \/ XivWriteLog \/ XivExitOk \/ XivUncaught

InitXiv(n) ==
    /\ prog = "xiv" /\ pc = "xiv_start"
    /\ prev = NoPrev
    /\ AuxIdle
    /\ Fresh
    /\ clock = 0 /\ run_no = 1 /\ run_id = -1
    /\ log_lines = <<>> /\ env_info = NoOutputs
    /\ \E pq \in {NoFile} \cup InputFilesXiv(n), csv \in {NoFile, StaleFile} :
          fs = [q \in InputPaths |-> IF q = ParquetPath THEN pq ELSE csv]

\* one profiling run
SpecXiv == InitXiv(MaxRows) /\ [][NextXiv]_vars

\* profiling runs one after the other against the same output directory
SpecXivRuns == InitXiv(MaxRowsRuns) /\ [][NextXiv \/ XivNextRun]_vars

canonVars == <<fs, written, df, df_sorted, p15Locals, is_mono, INPUT_PARQUET,
               exc, status, stderr, s, prev, xivVars>>

\* the file is hashed
ShaFirst ==
    /\ prog = "sha" /\ pc = "sha_first"
    /\ sha_hex' = <<Sha256File(sha_file, sha_chunk[1])>>
    /\ pc' = "sha_again"
    /\ UNCHANGED <<prog, canonVars, p11bVars, out, sha_file, sha_chunk>>

\* the unmodified file is hashed a second time, with the second chunk size
ShaAgain ==
    /\ prog = "sha" /\ pc = "sha_again"
    /\ sha_hex' = Append(sha_hex, Sha256File(sha_file, sha_chunk[2]))
    /\ pc' = "sha_append"
    /\ UNCHANGED <<prog, canonVars, p11bVars, out, sha_file, sha_chunk>>

\* one byte is appended to the file
ShaAppendByte ==
    /\ prog = "sha" /\ pc = "sha_append"
    /\ \E b \in ByteValues : sha_file' = Append(sha_file, b)
    /\ pc' = "sha_third"
    /\ UNCHANGED <<prog, canonVars, p11bVars, out, sha_chunk, sha_hex>>

\* the longer file is hashed
ShaThird ==
    /\ prog = "sha" /\ pc = "sha_third"
    /\ sha_hex' = Append(sha_hex, Sha256File(sha_file, sha_chunk[2]))
    /\ pc' = "exit"
    /\ UNCHANGED <<prog, canonVars, p11bVars, out, sha_file, sha_chunk>>

InitSha ==
    /\ prog = "sha" /\ pc = "sha_first"
    /\ prev = NoPrev /\ XivIdle /\ Fresh
    /\ fs = [p \in {ArgsInput} |-> NoFile]
    /\ P11bIdle /\ out = <<>>
    /\ sha_file \in SeqsUpTo(ByteValues, MaxBytes)
    /\ sha_chunk \in ChunkSizes \X ChunkSizes
    /\ sha_hex = <<>>

NextSha == ShaFirst \/ ShaAgain \/ ShaAppendByte \/ ShaThird

\* sha256_file on every small file, with every pair of chunk sizes
SpecSha == InitSha /\ [][NextSha]_vars

\* ---------------------------------------------------------- range_flags
\* column layouts of the datasets handed to range_flags
FlagLayouts ==
    {<<>>, <<DateCol>>, <<OtherCol>>, <<DateCol, OtherCol>>, <<OtherCol, ExtraCol>>,
     <<DateCol, OtherCol, ExtraCol>>, <<OtherCol, DateCol, ExtraCol>>}

\* a dataset with the given columns: the numeric cells are those given, null
\* or 1..MaxVal, and the timestamp of a row is its position
FlagTable(cols, cells) ==
    ReadParquet(FileTable(cols,
        [i \in DOMAIN cells |->
            [c \in Range(cols) |-> IF c = DateCol THEN i ELSE cells[i][c]]]))

\* rflags = range_flags(df)
RfCall ==
    /\ prog = "range_flags" /\ pc = "rf_call"
    /\ out' = RangeFlags(df)
    /\ pc' = "exit"
    /\ UNCHANGED <<prog, canonVars, p11bVars, shaVars>>

InitRange ==
    /\ prog = "range_flags" /\ pc = "rf_call"
    /\ prev = NoPrev /\ XivIdle /\ FreshLocals
    /\ fs = [p \in {ParquetPath} |-> NoFile]
    /\ P11bIdle /\ ShaIdle /\ out = <<>>
    /\ \E cols \in FlagLayouts, k \in 0..MaxRowsFlags :
          \E cells \in [1..k -> [Range(cols) \ {DateCol} -> {NaT} \cup (1..MaxVal)]] :
             df = FlagTable(cols, cells)
    /\ df_sorted = NoTable

\* range_flags on every small dataset
SpecRange == InitRange /\ [][RfCall]_vars

\* ------------------------------------------------------- P1.1b: main()
CSV_PATH == "meteo_bruta_PVH_2017_full.csv"
PARQUET_PATH == "meteo_bruta_PVH_2017_full.parquet"
OUT_TXT == "confirmacao_resumo.txt"
OUT_SCHEMA == "confirmacao_schema.csv"

\* file_info(path)
FileInfo(path, file) ==
    [path |-> path, exists |-> file.exists, size_bytes |-> Len(FileBytes(file)),
     sha256 |-> Sha256File(FileBytes(file), DefaultChunkSize)]

\* str(df_csv[c].dtype): text columns of a CSV are read as object
DtypeCsv(c) == IF c = DateCol THEN "object" ELSE "int64"

\* what the run leaves alone
p11bOther == <<df, df_sorted, p15Locals, is_mono, INPUT_PARQUET, exc, stderr, s,
               prev, xivVars, shaVars, out>>

\* lines 61-66
P11bCheckCsv ==
    /\ prog = "p11b" /\ pc = "p11b_start"
    /\ IF ~fs[CSV_PATH].exists
       THEN status' = 2 /\ pc' = "exit"
       ELSE pc' = "p11b_check_pq" /\ UNCHANGED status
    /\ UNCHANGED <<prog, p11bOther, p11bVars, fs, written>>

\* the second existence check left out
P11bCheckParquetSkipped ==
    /\ prog = "p11b" /\ pc = "p11b_check_pq"
    /\ pc' = "p11b_info"
    /\ UNCHANGED <<prog, p11bOther, p11bVars, fs, written, status>>

\* lines 67-69
P11bCheckParquet ==
    /\ prog = "p11b" /\ pc = "p11b_check_pq"
    /\ IF ~fs[PARQUET_PATH].exists
       THEN status' = 2 /\ pc' = "exit"
       ELSE pc' = "p11b_info" /\ UNCHANGED status
    /\ UNCHANGED <<prog, p11bOther, p11bVars, fs, written>>

\* lines 72-73
P11bFileInfo ==
    /\ prog = "p11b" /\ pc = "p11b_info"
    /\ csv_info' = FileInfo(CSV_PATH, fs[CSV_PATH])
    /\ pq_info' = FileInfo(PARQUET_PATH, fs[PARQUET_PATH])
    /\ pc' = "p11b_read"
    /\ UNCHANGED <<prog, p11bOther, fs, written, status, df_csv, df_pq,
                   same_shape, same_cols, schema_rows>>

\* lines 77-80
P11bRead ==
    /\ prog = "p11b" /\ pc = "p11b_read"
    /\ df_csv' = ReadParquet(fs[CSV_PATH])
    /\ df_pq' = ReadParquet(fs[PARQUET_PATH])
    /\ pc' = "p11b_compare"
    /\ UNCHANGED <<prog, p11bOther, fs, written, status, csv_info, pq_info,
                   same_shape, same_cols, schema_rows>>

\* df.shape
Shape(t) == <<Len(t.rows), Len(t.columns)>>

\* the columns compared as sets, whatever their order
P11bCompareAsSets ==
    /\ prog = "p11b" /\ pc = "p11b_compare"
    /\ same_shape' = (Shape(df_csv) = Shape(df_pq))
    /\ same_cols' = (Range(df_csv.columns) = Range(df_pq.columns))
    /\ pc' = "p11b_schema"
    /\ UNCHANGED <<prog, p11bOther, fs, written, status, csv_info, pq_info,
                   df_csv, df_pq, schema_rows>>

\* lines 83-84
P11bCompare ==
    /\ prog = "p11b" /\ pc = "p11b_compare"
    /\ same_shape' = (Shape(df_csv) = Shape(df_pq))
    /\ same_cols' = (df_csv.columns = df_pq.columns)
    /\ pc' = "p11b_schema"
    /\ UNCHANGED <<prog, p11bOther, fs, written, status, csv_info, pq_info,
                   df_csv, df_pq, schema_rows>>

\* lines 87-93
SchemaRows(pq, csv) ==
    [i \in 1..Len(pq.columns) |->
        [coluna |-> pq.columns[i],
         dtype_parquet |-> DtypeOf(pq.columns[i]),
         dtype_csv |-> IF pq.columns[i] \in Range(csv.columns)
                       THEN DtypeCsv(pq.columns[i]) ELSE ""]]

\* lines 87-95
P11bSchema ==
    /\ prog = "p11b" /\ pc = "p11b_schema"
    /\ schema_rows' = SchemaRows(df_pq, df_csv)
    /\ fs' = WriteFile(fs, OUT_SCHEMA, Evidence(run_no, SchemaRows(df_pq, df_csv)))
    /\ written' = written \cup {OUT_SCHEMA}
    /\ pc' = "p11b_summary"
    /\ UNCHANGED <<prog, p11bOther, status, csv_info, pq_info, df_csv, df_pq,
                   same_shape, same_cols>>

\* lines 98-132: what the summary says that depends on the inputs
SummaryLines ==
    [csv_sha256 |-> csv_info.sha256, csv_size |-> csv_info.size_bytes,
     pq_sha256 |-> pq_info.sha256, pq_size |-> pq_info.size_bytes,
     shape_csv |-> Shape(df_csv), shape_pq |-> Shape(df_pq),
     same_shape |-> same_shape, same_cols |-> same_cols,
     columns |-> df_pq.columns]

P11bSummary ==
    /\ prog = "p11b" /\ pc = "p11b_summary"
    /\ fs' = WriteFile(fs, OUT_TXT, Evidence(run_no, SummaryLines))
    /\ written' = written \cup {OUT_TXT}
    /\ pc' = "p11b_returned"
    /\ UNCHANGED <<prog, p11bOther, p11bVars, status>>

\* lines 134-138, 142
P11bExitOk ==
    /\ prog = "p11b" /\ pc = "p11b_returned"
    /\ status' = 0
    /\ pc' = "exit"
    /\ UNCHANGED <<prog, p11bOther, p11bVars, fs, written>>

NextP11b ==
    \/ P11bCheckCsv \/ P11bCheckParquet \/ P11bFileInfo \/ P11bRead \/ P11bCompare
    \/ P11bSchema \/ P11bSummary \/ P11bExitOk

\* column layouts of the two encodings
ConfLayouts ==
    {<<DateCol>>, <<DateCol, OtherCol>>, <<OtherCol, DateCol>>, <<DateCol, ExtraCol>>,
     <<DateCol, OtherCol, ExtraCol>>}

\* an encoding with the given columns and k rows; every cell is its row number
ConfFile(cols, k) == FileTable(cols, [i \in 1..k |-> [c \in Range(cols) |-> i]])

\* what an earlier confirmation run left behind
StaleEvidence == Evidence(0, "old")

InitP11b(n) ==
    /\ prog = "p11b" /\ pc = "p11b_start"
    /\ prev = NoPrev /\ XivIdle /\ Fresh /\ AuxIdle
    /\ \E csv \in {NoFile} \cup {ConfFile(c, k) : c \in ConfLayouts, k \in 0..n},
          pq \in {NoFile} \cup {ConfFile(c, k) : c \in ConfLayouts, k \in 0..n},
          old \in {NoFile, StaleEvidence} :
          fs = [q \in {CSV_PATH, PARQUET_PATH, OUT_TXT, OUT_SCHEMA} |->
                   IF q = CSV_PATH THEN csv ELSE IF q = PARQUET_PATH THEN pq ELSE old]

\* the confirmation run
SpecConfirm == InitP11b(MaxRowsConf) /\ [][NextP11b]_vars

\* the two runs that check their inputs before loading: confirmation and
\* profiling
SpecPreflight ==
    (InitP11b(MaxRowsConf) \/ InitXiv(MaxRowsRuns)) /\ [][NextP11b \/ NextXiv]_vars

\* ======================================================== properties
InputPath == IF prog = "p15" THEN ArgsInput ELSE INPUT_PARQUET
OutputPath == IF prog = "p15" THEN ArgsOutput ELSE OUTPUT_PARQUET
Succeeded == pc = "exit" /\ status = 0
Failed == pc \in {"p15_raised", "p16_raised"} \/ (pc = "exit" /\ status # 0)

\* the timestamps of a stored table, and whether they never decrease
StoredTimes(file) == [i \in 1..Len(file.rows) |-> file.rows[i].date_time]
NonDecreasing(col) ==
    \A i \in 1..(Len(col) - 1) : col[i] # NaT /\ col[i + 1] # NaT /\ col[i] <= col[i + 1]
HasInversion(col) ==
    \E i \in 1..(Len(col) - 1) : col[i] # NaT /\ col[i + 1] # NaT /\ col[i] > col[i + 1]

\* the input of P1.5 as it reads after conversion
InputValid ==
    /\ fs[ArgsInput].exists
    /\ DateCol \in Range(fs[ArgsInput].columns)
    /\ \A i \in 1..Len(fs[ArgsInput].rows) :
          fs[ArgsInput].rows[i].date_time \notin {RawNull, RawBad}
ConvertedInput ==
    [i \in 1..Len(fs[ArgsInput].rows) |->
        [date_time |-> ToDatetimeCell(fs[ArgsInput].rows[i].date_time),
         payload |-> fs[ArgsInput].rows[i].payload]]

\* C1: when a run of P1.5 (or of P1.6) ends without error, the dataset at
\* the output path is in non-decreasing order of the timestamp column.
C1_OutputOrdered ==
    (Succeeded \/ OutputPath \in written) =>
        /\ fs[OutputPath].exists
        /\ NonDecreasing(StoredTimes(fs[OutputPath]))

\* C1 witness: P1.5 ended with success on an input that was out of order.
C1_Witness ==
    /\ prog = "p15" /\ Succeeded
    /\ HasInversion([i \in 1..Len(ConvertedInput) |-> ConvertedInput[i].date_time])

\* C2: the sort is stable: of two rows with the same timestamp, the one that
\* came first in the input comes first in the sorted table.
C2_SortStable ==
    /\ (prog = "p15" /\ pc = "p15_mono") =>
          \A i, j \in 1..Len(df_sorted.rows) :
             (i < j /\ df_sorted.rows[i].date_time # NaT
                    /\ df_sorted.rows[i].date_time = df_sorted.rows[j].date_time)
                => df_sorted.index[i] < df_sorted.index[j]
    /\ (prog = "p16" /\ pc = "p16_mono") =>
          \A i, j \in 1..Len(df.rows) :
             (i < j /\ df.rows[i].date_time # NaT
                    /\ df.rows[i].date_time = df.rows[j].date_time)
                => df.rows[i].payload < df.rows[j].payload

\* C3: canonicalization of a dataset already in non-decreasing timestamp
\* order returns the same rows in the same order, with no inversion found.
C3_Idempotent ==
    (prog = "p15" /\ Succeeded /\ InputValid
       /\ NonDecreasing([i \in 1..Len(ConvertedInput) |-> ConvertedInput[i].date_time]))
    => (fs[ArgsOutput].rows = ConvertedInput /\ is_mono)

\* the rows of the input of P1.5 that are null after conversion
NullRows ==
    {i \in 1..Len(fs[ArgsInput].rows) :
        fs[ArgsInput].rows[i].date_time \in {RawNull, RawBad}}

\* C4: a null timestamp after conversion makes P1.5 fail with an error that
\* gives the number of null rows and the column, before the sort runs, with
\* no row dropped and no output written.
C4_NullTimestampFatal ==
    /\ (prog = "p15" /\ exc.type = "ValueError") =>
          /\ Failed
          /\ exc.n = Cardinality(NullRows) /\ exc.n > 0
          /\ exc.col = ArgsDateCol
          /\ df_sorted = NoTable
          /\ Len(df.rows) = Len(fs[ArgsInput].rows)
          /\ written = {}
          /\ fs[ArgsOutput] \in {NoFile, StaleFile}
          /\ pc = "exit" => (status = 1 /\ stderr = exc)
    /\ (prog = "p15" /\ pc \in {"p15_pre", "p15_sort", "p15_mono", "p15_post",
                                 "p15_write", "p15_returned"}) =>
          \A i \in 1..Len(df.rows) : df.rows[i].date_time # NaT

\* C4 witness: one null row in an otherwise valid dataset of several rows.
C4_Witness ==
    /\ prog = "p15" /\ pc = "exit" /\ exc.type = "ValueError"
    /\ exc.n = 1 /\ Len(df.rows) >= 3
    /\ \E i \in 1..Len(fs[ArgsInput].rows) : fs[ArgsInput].rows[i].date_time = RawNull

\* C5: minimum, maximum and duplicate count of the timestamps recorded after
\* the sort equal those recorded before it.
C5_EvidenceUnchanged ==
    (prog = "p15" /\ pc \in {"p15_write", "p15_returned", "exit"} /\ exc = NoExc) =>
        /\ dt_min2 = dt_min /\ dt_max2 = dt_max /\ dup_count2 = dup_count
        /\ dup_count = Len(df.rows) - Cardinality(Range(Column(df, ArgsDateCol)))
        /\ \A i \in 1..Len(df.rows) :
              dt_min <= df.rows[i].date_time /\ df.rows[i].date_time <= dt_max

\* C5 witness: timestamps [3,1,1]: one duplicate, minimum 1, maximum 3, and
\* the sorted order [1,1,3].
C5_Witness ==
    /\ prog = "p15" /\ Succeeded
    /\ Column(df, ArgsDateCol) = <<3, 1, 1>>
    /\ dup_count = 1 /\ dup_count2 = 1 /\ dt_min2 = 1 /\ dt_max2 = 3
    /\ StoredTimes(fs[ArgsOutput]) = <<1, 1, 3>>

\* the check of the state has run and raised
MonoChecked == pc \in {"p15_post", "p16_write", "p15_raised", "p16_raised"}
MonoRaised == pc \in {"p15_raised", "p16_raised"}

\* C6 as stated: the check raises exactly when some adjacent pair of the
\* table decreases; it never rejects a table of at most one row.
C6_MonoCheckExact ==
    MonoChecked =>
        /\ MonoRaised <=> HasInversion(s)
        /\ Len(s) <= 1 => ~MonoRaised

\* C6 amended: on a table without null timestamps the check raises exactly
\* when some adjacent pair decreases (so never on an empty, one-row or
\* all-equal table); the check of P1.6 also raises on every table that holds
\* a null timestamp.
C6_MonoCheckExactNoNulls ==
    MonoChecked =>
        /\ (\A i \in 1..Len(s) : s[i] # NaT) =>
              /\ MonoRaised <=> HasInversion(s)
              /\ is_mono <=> ~MonoRaised
              /\ (\A i, j \in 1..Len(s) : s[i] = s[j]) => ~MonoRaised
        /\ (prog = "p16" /\ \E i \in 1..Len(s) : s[i] = NaT) => MonoRaised

\* C6 witness: a table with equal adjacent timestamps passed, in both scripts
C6_Witness ==
    /\ MonoChecked /\ ~MonoRaised
    /\ Len(s) >= 2 /\ \A i \in 1..Len(s) : s[i] = s[1] /\ s[i] # NaT

\* every fatal-class check of the run holds of its input and of its output
ChecksPassed ==
    IF prog = "p15"
    THEN /\ InputValid
         /\ NonDecreasing(StoredTimes(fs[ArgsOutput]))
    ELSE /\ \E k \in DOMAIN CANDIDATOS_INPUT : fs[CANDIDATOS_INPUT[k]].exists
         /\ INPUT_PARQUET # "None"
         /\ DateCol \in Range(fs[INPUT_PARQUET].columns)
         /\ \A i \in 1..Len(fs[INPUT_PARQUET].rows) :
               fs[INPUT_PARQUET].rows[i].date_time # NaT
         /\ NonDecreasing(StoredTimes(fs[OUTPUT_PARQUET]))

\* C7: the output dataset is written only after every fatal-class check of
\* the run has passed; a run in which a check fails writes no output.
C7_WriteAfterChecks ==
    /\ written # {} => (written = {OutputPath} /\ ChecksPassed /\ exc = NoExc)
    /\ Failed => (written = {} /\ fs[OutputPath] \in {NoFile, StaleFile})
    /\ written = {} => fs[OutputPath] \in {NoFile, StaleFile}

\* C7 witness: a failed run that left an older output dataset in place, in P1.6
C7_Witness ==
    /\ prog = "p16" /\ pc = "exit" /\ status = 1
    /\ exc.type = "ValueError"
    /\ fs[OUTPUT_PARQUET] = StaleFile

\* the first fatal-class check the input of P1.5 fails, "none" if it passes all
FirstViolation ==
    IF ~fs[ArgsInput].exists THEN "missing file"
    ELSE IF DateCol \notin Range(fs[ArgsInput].columns) THEN "missing column"
    ELSE IF \E i \in NullRows : fs[ArgsInput].rows[i].date_time = RawBad
         THEN "unparsable timestamp"
    ELSE IF NullRows # {} THEN "null timestamps"
    ELSE "none"

\* the diagnostic names the failed check and the file or column it is about
DiagnosticFor(v) ==
    CASE v = "missing file" ->
            stderr.type = "FileNotFoundError" /\ stderr.path = ArgsInput
      [] v = "missing column" ->
            stderr.type = "KeyError" /\ stderr.col = ArgsDateCol
      [] v = "unparsable timestamp" ->
            \/ /\ stderr.type = "RuntimeError"
               /\ stderr.text = "conversion to datetime failed"
               /\ stderr.col = ArgsDateCol
            \/ /\ stderr.type = "ValueError" /\ stderr.col = ArgsDateCol
               /\ stderr.n = Cardinality(NullRows)
      [] v = "null timestamps" ->
            /\ stderr.type = "ValueError" /\ stderr.col = ArgsDateCol
            /\ stderr.n = Cardinality(NullRows)
      [] OTHER -> FALSE

\* the fatal violations the exit behaviour lists, by the message raised
ListedViolations ==
    {"input not found", "conversion to datetime failed",
     "null values after conversion", "not monotonic after sort"}

EvidencePaths(fsys) == DOMAIN fsys \ InputPaths

\* C9: over any sequence of runs against the same destination directory, no
\* step of a run replaces or changes an evidence file that an earlier run
\* wrote: the files of all earlier runs stay as they were.
C9_NoOverwrite ==
    [][\A q \in EvidencePaths(fs) :
          fs[q].run < run_no' => (q \in DOMAIN fs' /\ fs'[q] = fs[q])]_vars

\* --------------------------------------------------------------- C10
XivAborted == prog = "xiv" /\ pc = "exit" /\ status # 0

\* C10: when the profiling run aborts on a fatal error, the log lines
\* buffered up to that point are in the run's log file when the run ends,
\* and no metadata record was written for the run.
C10_AbortWritesLog ==
    XivAborted =>
        /\ LogFile(run_id) \in DOMAIN fs
        /\ fs[LogFile(run_id)] = Evidence(run_no, log_lines)
        /\ MetaFile(run_id) \notin written

\* --------------------------------------------------------------- C16
\* positions in the candidate list whose file exists
ExistingCandidates == {k \in DOMAIN CANDIDATOS_INPUT : fs[CANDIDATOS_INPUT[k]].exists}

\* the rows of a table or file as a bag
RowBag(rows) == [r \in Range(rows) |-> Cardinality({i \in DOMAIN rows : rows[i] = r})]

\* C16: once P1.6 has resolved its input, the input chosen is the first
\* candidate in list order that exists, whichever later candidates exist
\* too, and the table loaded and the master dataset written hold that
\* candidate's rows; if no candidate exists the run raises FileNotFoundError
\* over the candidate list and writes no master dataset.
C16_FirstCandidateWins ==
    (prog = "p16" /\ pc # "p16_select") =>
        IF ExistingCandidates = {}
        THEN /\ INPUT_PARQUET = "None"
             /\ pc # "p16_found" =>
                    /\ exc.type = "FileNotFoundError" /\ exc.path = "CANDIDATOS_INPUT"
                    /\ pc \in {"p16_raised", "exit"}
                    /\ pc = "exit" => status = 1
             /\ written = {}
             /\ fs[OUTPUT_PARQUET] \in {NoFile, StaleFile}
        ELSE LET first == CHOOSE k \in ExistingCandidates :
                              \A j \in ExistingCandidates : k <= j
             IN  /\ INPUT_PARQUET = CANDIDATOS_INPUT[first]
                 /\ pc \in {"p16_col", "p16_sort"} =>
                        df = ReadParquet(fs[CANDIDATOS_INPUT[first]])
                 /\ Succeeded =>
                        RowBag(fs[OUTPUT_PARQUET].rows)
                            = RowBag(fs[CANDIDATOS_INPUT[first]].rows)

\* C16 witness: the first candidate is absent, the second and the fourth
\* exist with different contents, and the run stored the second one's rows
C16_Witness ==
    /\ prog = "p16" /\ Succeeded
    /\ ExistingCandidates = {2, 4}
    /\ INPUT_PARQUET = CANDIDATOS_INPUT[2]
    /\ fs[CANDIDATOS_INPUT[2]] # fs[CANDIDATOS_INPUT[4]]
    /\ Len(fs[OUTPUT_PARQUET].rows) = 3

DigestExpected(bytes, n) == IF n = 0 THEN HexDigest(<<>>) ELSE HexDigest(bytes)

XivNoNumericLoaded ==
    /\ prog = "xiv" /\ fs[ParquetPath].exists
    /\ pc \notin {"xiv_start", "xiv_check", "xiv_read"}
    /\ Range(df.columns) \subseteq {DateCol}

\* C13: on a dataset without numeric columns numeric_describe,
\* numeric_quantiles and range_flags return empty tables and nothing is
\* raised; the run writes no describe, quantile or range-flag file, records
\* their paths as null in the metadata, logs the absence and exits with
\* status 0.
C13_NoNumericColumns ==
    XivNoNumericLoaded =>
        /\ NumericDescribe(df) = <<>>
        /\ NumericQuantiles(df) = <<>>
        /\ RangeFlags(df) = <<>>
        /\ exc = NoExc /\ pc # "xiv_raised"
        /\ \A name \in {"describe_numerico", "quantis_numericos", "ranges_flags"} :
               TabFile(name, run_id) \notin DOMAIN fs
        /\ pc = "exit" =>
               /\ status = 0
               /\ MetaFile(run_id) \in written
               /\ fs[MetaFile(run_id)].data.describe_csv = <<>>
               /\ fs[MetaFile(run_id)].data.quantis_csv = <<>>
               /\ fs[MetaFile(run_id)].data.ranges_csv = <<>>
               /\ fs[MetaFile(run_id)].data.figuras = <<>>
               /\ LogFile(run_id) \in written
               /\ {"Sem colunas numericas para describe",
                   "Sem colunas numericas para quantis",
                   "Sem colunas numericas para ranges/flags",
                   "Sem colunas numericas detectadas"}
                      \subseteq Range(fs[LogFile(run_id)].data)

\* C13 witness: a run over a dataset of three rows that has only the
\* timestamp column has ended
C13_Witness ==
    /\ XivNoNumericLoaded /\ pc = "exit" /\ status = 0
    /\ df.columns = <<DateCol>> /\ Len(df.rows) = 3

\* --------------------------------------------------------------- C14
\* the numeric columns of the datasets modelled, in dataset order
NumericNames(t) == SelectSeq(t.columns, LAMBDA c : c \in {OtherCol, ExtraCol})

\* the non-null cells of a column
Known(t, c) == {t.rows[i][c] : i \in 1..Len(t.rows)} \ {NaT}

P11bInputMissing ==
    prog = "p11b" /\ (~fs[CSV_PATH].exists \/ ~fs[PARQUET_PATH].exists)

\* the required input of the profiling run is missing
XivInputMissing == prog = "xiv" /\ ~fs[ParquetPath].exists

\* C11: with a required input missing the run fails in its existence check,
\* before any data is loaded, and writes no artifact: the confirmation run
\* ends with status 2 and writes neither summary nor schema table, the
\* profiling run raises FileNotFoundError and writes no table, log or
\* metadata file.
C11_MissingInputPreflight ==
    /\ P11bInputMissing =>
          /\ pc \in {"p11b_start", "p11b_check_pq", "exit"}
          /\ pc = "exit" => status = 2
          /\ csv_info = NoInfo /\ pq_info = NoInfo
          /\ df_csv = NoTable /\ df_pq = NoTable
          /\ written = {}
          /\ fs[OUT_TXT] \in {NoFile, StaleEvidence}
          /\ fs[OUT_SCHEMA] \in {NoFile, StaleEvidence}
    /\ XivInputMissing =>
          /\ pc \in {"xiv_start", "xiv_check", "xiv_raised", "exit"}
          /\ pc \in {"xiv_raised", "exit"} =>
                 exc.type = "FileNotFoundError" /\ exc.path = "CAP5_METEO_PARQUET"
          /\ pc = "exit" => (status = 1 /\ stderr = exc)
          /\ df = NoTable
          /\ written = {}
          /\ DOMAIN fs = InputPaths

\* C11 witness: the confirmation run has ended with the CSV present, the
\* Parquet file missing and the evidence of an earlier run still in place
C11_Witness ==
    /\ prog = "p11b" /\ pc = "exit" /\ status = 2
    /\ fs[CSV_PATH].exists /\ ~fs[PARQUET_PATH].exists
    /\ fs[OUT_TXT] = StaleEvidence

\* --------------------------------------------------------------- C12
\* both encodings exist and the confirmation run has ended
P11bCompared ==
    prog = "p11b" /\ pc = "exit" /\ fs[CSV_PATH].exists /\ fs[PARQUET_PATH].exists

\* the two encodings have as many rows and as many columns as each other
EqualCounts ==
    /\ Len(fs[CSV_PATH].rows) = Len(fs[PARQUET_PATH].rows)
    /\ Len(fs[CSV_PATH].columns) = Len(fs[PARQUET_PATH].columns)

\* the column names agree position by position
EqualNames ==
    /\ Len(fs[CSV_PATH].columns) = Len(fs[PARQUET_PATH].columns)
    /\ \A i \in DOMAIN fs[CSV_PATH].columns :
           fs[CSV_PATH].columns[i] = fs[PARQUET_PATH].columns[i]

\* the names differ at position i and nowhere else
RenamedAt(i) ==
    /\ Len(fs[CSV_PATH].columns) = Len(fs[PARQUET_PATH].columns)
    /\ \A j \in DOMAIN fs[CSV_PATH].columns :
           (fs[CSV_PATH].columns[j] # fs[PARQUET_PATH].columns[j]) <=> j = i

\* C12: for two encodings with equal row and column counts the run reports
\* same_shape = true, and same_columns = true exactly when the column names
\* agree position by position; with exactly one column renamed it reports
\* same_shape = true and same_columns = false, the schema table gives that
\* column an empty CSV type, nothing is raised and the status is 0.
C12_ShapeAndColumns ==
    P11bCompared =>
        /\ status = 0 /\ exc = NoExc
        /\ written = {OUT_SCHEMA, OUT_TXT}
        /\ same_shape <=> EqualCounts
        /\ same_cols <=> EqualNames
        /\ fs[OUT_TXT].data.same_shape = same_shape
        /\ fs[OUT_TXT].data.same_cols = same_cols
        /\ \A i \in DOMAIN fs[PARQUET_PATH].columns :
               (EqualCounts /\ RenamedAt(i)) =>
                   /\ same_shape /\ ~same_cols
                   /\ fs[OUT_SCHEMA].data[i].coluna = fs[PARQUET_PATH].columns[i]
                   /\ \A j \in DOMAIN fs[OUT_SCHEMA].data :
                          (fs[OUT_SCHEMA].data[j].dtype_csv = "") <=> j = i

\* C12 witness: two encodings of two rows and two columns each, the second
\* column under another name in the Parquet file
C12_Witness ==
    /\ P11bCompared /\ status = 0
    /\ fs[CSV_PATH].columns = <<DateCol, OtherCol>>
    /\ fs[PARQUET_PATH].columns = <<DateCol, ExtraCol>>
    /\ Len(fs[CSV_PATH].rows) = 2 /\ Len(fs[PARQUET_PATH].rows) = 2
    /\ same_shape /\ ~same_cols
    /\ fs[OUT_SCHEMA].data[2].dtype_csv = ""

====
